---- MODULE Spec2Model ----
(***************************************************************************)
(* Exemplar: the renderer's session state (App component: search          *)
(* aggregation, image pagination, Anki selection state) and the main      *)
(* process' AnkiService (card export over AnkiConnect).                   *)
(*                                                                         *)
(* Spec            the App component: its useState cells and handlers.    *)
(*                 An async handler is cut at every await; the code       *)
(*                 between two awaits is one atomic step (single JS       *)
(*                 thread), and the state setters of one step are         *)
(*                 committed together. The three lookups of a search      *)
(*                 settle in one step (lookupsSettled).                   *)
(* AggregatorSpec  handleSearch alone, overlapping calls included, with   *)
(*                 each of the three lookups settling in a step of its    *)
(*                 own (lookupSettled).                                   *)
(* LoadingSpec     searches and page changes alone, under the fairness    *)
(*                 that every call awaited by a handler settles.          *)
(* ExportSpec      AnkiService.addCards/addCard against the AnkiConnect   *)
(*                 bridge; every sendRequest is a request step and a      *)
(*                 later response step.                                   *)
(* RaceSpec        two export sessions at once, the deck absent at first. *)
(* FormatSpec      AnkiService.formatCard applied to a card.              *)
(***************************************************************************)
EXTENDS Integers, Sequences, FiniteSets, TLC

VARIABLES
    \* ---- App component state (useState cells)
    currentWord, searchResult, paginatedImages, explanation,
    isLoading, isImagesLoading, showAnkiCardCreator,
    selectedPhrases, selectedImages, ankiMode, settings,
    \* ---- async handler invocations in progress or finished
    searches,        \* one record per handleSearch call that passed the blank check
    pageChanges,     \* one record per handlePageChange call that passed its guard
    dropped,         \* the last handler call that returned early, if any
    \* ---- AnkiService export sessions and the AnkiConnect bridge
    cards, exportPc, idx, cardPc, success, failed, remoteDecks, log,
    ensureFailedAt, notesAdded, decksAtStart, deckNamesFailed,
    noteIds,         \* per session: the cards whose addNote returned a note id
    audioFailed,     \* per session: the cards whose storeMediaFile call failed
    \* ---- AnkiService.formatCard
    card,            \* the argument of formatCard
    fields           \* what formatCard returned for it, if it has run

appVars == <<currentWord, searchResult, paginatedImages, explanation,
             isLoading, isImagesLoading, showAnkiCardCreator,
             selectedPhrases, selectedImages, ankiMode, settings>>
taskVars == <<searches, pageChanges, dropped>>
exportVars == <<cards, exportPc, idx, cardPc, success, failed, remoteDecks, log,
                ensureFailedAt, notesAdded, decksAtStart, deckNamesFailed,
                noteIds, audioFailed>>
formatVars == <<card, fields>>
vars == <<appVars, taskVars, exportVars, formatVars>>

(***************************************************************************)
(* Bounds                                                                  *)
(***************************************************************************)
MaxSearches == 2       \* handleSearch calls that pass the blank check
MaxPageChanges == 2    \* handlePageChange calls that pass the guard
TotalPages == 2        \* pages the image service reports for a word
MaxCards == 2          \* cards of one export

(***************************************************************************)
(* Values                                                                  *)
(***************************************************************************)
\* A string is a sequence of characters; "" is <<>>.
Queries == { <<>>, <<" ">>, <<"a">>, <<" ", "b">> }

\* undefined (useState() without an initial value) and null
Undefined == [undefined |-> TRUE]
Null == [null |-> TRUE]

RECURSIVE TrimStart(_)
TrimStart(s) ==
    IF s = <<>> THEN s
    ELSE IF Head(s) = " " THEN TrimStart(Tail(s)) ELSE s

RECURSIVE TrimEnd(_)
TrimEnd(s) ==
    IF s = <<>> THEN s
    ELSE IF s[Len(s)] = " " THEN TrimEnd(SubSeq(s, 1, Len(s) - 1)) ELSE s

\* Mutant of trim: only leading white space is removed.
trim_startOnly(s) == TrimStart(s)

\* Mutant of trim: nothing is removed.
trim_nothing(s) == s

\* String.prototype.trim
trim(s) == TrimEnd(TrimStart(s))

\* the perPage argument of both searchImages calls
perPage == 6

\* What window.electronAPI.searchImages(word, {page, perPage}) resolves to
\* when it is fulfilled: the page `page` of the images of `word`.
searchImages(word, options) ==
    [ images      |-> << [word |-> word, page |-> options.page, perPage |-> options.perPage] >>,
      currentPage |-> options.page,
      totalPages  |-> TotalPages,
      hasNext     |-> options.page < TotalPages,
      hasPrevious |-> options.page > 1 ]

\* What generatePhrases(word) and generateExplanation(word) resolve to.
generatePhrases(word) == << [phraseOf |-> word] >>
generateExplanation(word) == [explanationOf |-> word]

\* The substitute for a rejected image search (handleSearch).
emptyImageResults ==
    [ images      |-> <<>>,
      currentPage |-> 1,
      totalPages  |-> 1,
      hasNext     |-> FALSE,
      hasPrevious |-> FALSE ]

Sources == {"images", "phrases", "explanation"}

(***************************************************************************)
(* App component: initial state                                            *)
(***************************************************************************)
NoStatus == [s \in Sources |-> "none"]

AppInit ==
    /\ currentWord = <<>>
    /\ searchResult = Undefined
    /\ paginatedImages = Undefined
    /\ explanation = Null
    /\ isLoading = FALSE
    /\ isImagesLoading = FALSE
    /\ showAnkiCardCreator = FALSE
    /\ selectedPhrases = <<>>
    /\ selectedImages = <<>>
    /\ ankiMode = FALSE
    /\ settings = Null
    /\ searches = <<>>
    /\ pageChanges = <<>>
    /\ dropped = "none"

\* What the JSX renders, which decides the handlers the user can reach.
ankiControlsShown ==
    /\ currentWord # <<>>
    /\ settings # Null
    /\ settings.anki.enabled
    /\ searchResult # Undefined

gridShown ==
    /\ currentWord # <<>>
    /\ searchResult # Undefined
    /\ paginatedImages # Undefined

(***************************************************************************)
(* useEffect: loadSettings                                                 *)
(***************************************************************************)
loadSettings ==
    /\ settings = Null
    /\ \E enabled \in BOOLEAN : settings' = [anki |-> [enabled |-> enabled]]
    /\ UNCHANGED <<currentWord, searchResult, paginatedImages, explanation,
                   isLoading, isImagesLoading, showAnkiCardCreator,
                   selectedPhrases, selectedImages, ankiMode>>
    /\ UNCHANGED <<taskVars, exportVars, formatVars>>

(***************************************************************************)
(* Anki mode and selection handlers                                        *)
(***************************************************************************)
\* Mutant of handleAnkiModeToggle: leaving Anki mode keeps the selections.
handleAnkiModeToggle_keepsSelections ==
    /\ ankiControlsShown
    /\ ankiMode' = ~ankiMode
    /\ UNCHANGED <<selectedPhrases, selectedImages>>
    /\ UNCHANGED <<currentWord, searchResult, paginatedImages, explanation,
                   isLoading, isImagesLoading, showAnkiCardCreator, settings>>
    /\ UNCHANGED <<taskVars, exportVars, formatVars>>

\* Mutant of handleAnkiModeToggle: leaving Anki mode resets the phrases only.
handleAnkiModeToggle_keepsImages ==
    /\ ankiControlsShown
    /\ ankiMode' = ~ankiMode
    /\ IF ankiMode
         THEN selectedPhrases' = <<>>
         ELSE UNCHANGED selectedPhrases
    /\ UNCHANGED selectedImages
    /\ UNCHANGED <<currentWord, searchResult, paginatedImages, explanation,
                   isLoading, isImagesLoading, showAnkiCardCreator, settings>>
    /\ UNCHANGED <<taskVars, exportVars, formatVars>>

handleAnkiModeToggle ==
    /\ ankiControlsShown
    /\ ankiMode' = ~ankiMode
    /\ IF ankiMode
         THEN /\ selectedPhrases' = <<>>
              /\ selectedImages' = <<>>
         ELSE UNCHANGED <<selectedPhrases, selectedImages>>
    /\ UNCHANGED <<currentWord, searchResult, paginatedImages, explanation,
                   isLoading, isImagesLoading, showAnkiCardCreator, settings>>
    /\ UNCHANGED <<taskVars, exportVars, formatVars>>

\* The button is rendered in Anki mode only and disabled without a selection.
handleCreateAnkiCards ==
    /\ ankiControlsShown
    /\ ankiMode
    /\ Len(selectedPhrases) # 0
    /\ IF Len(selectedPhrases) = 0
         THEN UNCHANGED showAnkiCardCreator
         ELSE showAnkiCardCreator' = TRUE
    /\ UNCHANGED <<currentWord, searchResult, paginatedImages, explanation,
                   isLoading, isImagesLoading, selectedPhrases, selectedImages,
                   ankiMode, settings>>
    /\ UNCHANGED <<taskVars, exportVars, formatVars>>

\* onCreateCard of the open AnkiCardCreator
handleAnkiCardsCreated ==
    /\ showAnkiCardCreator
    /\ selectedPhrases' = <<>>
    /\ selectedImages' = <<>>
    /\ ankiMode' = FALSE
    /\ UNCHANGED <<currentWord, searchResult, paginatedImages, explanation,
                   isLoading, isImagesLoading, showAnkiCardCreator, settings>>
    /\ UNCHANGED <<taskVars, exportVars, formatVars>>

\* onClose of the open AnkiCardCreator
closeAnkiCardCreator ==
    /\ showAnkiCardCreator
    /\ showAnkiCardCreator' = FALSE
    /\ UNCHANGED <<currentWord, searchResult, paginatedImages, explanation,
                   isLoading, isImagesLoading, selectedPhrases, selectedImages,
                   ankiMode, settings>>
    /\ UNCHANGED <<taskVars, exportVars, formatVars>>

Range(seq) == { seq[i] : i \in 1..Len(seq) }

\* checkbox semantics: selecting a selected item deselects it
toggle(selection, item) ==
    IF item \in Range(selection)
      THEN SelectSeq(selection, LAMBDA x : x # item)
      ELSE Append(selection, item)

\* ExamplePhrases calls onPhraseSelection={setSelectedPhrases}; its
\* checkboxes exist while showAnkiControls={ankiMode}.
onPhraseSelection ==
    /\ gridShown
    /\ ankiMode
    /\ \E p \in Range(searchResult.phrases) :
          selectedPhrases' = toggle(selectedPhrases, p)
    /\ UNCHANGED <<currentWord, searchResult, paginatedImages, explanation,
                   isLoading, isImagesLoading, showAnkiCardCreator,
                   selectedImages, ankiMode, settings>>
    /\ UNCHANGED <<taskVars, exportVars, formatVars>>

\* VisualContext calls onImageSelection={setSelectedImages}.
onImageSelection ==
    /\ gridShown
    /\ ankiMode
    /\ \E i \in Range(searchResult.images) :
          selectedImages' = toggle(selectedImages, i)
    /\ UNCHANGED <<currentWord, searchResult, paginatedImages, explanation,
                   isLoading, isImagesLoading, showAnkiCardCreator,
                   selectedPhrases, ankiMode, settings>>
    /\ UNCHANGED <<taskVars, exportVars, formatVars>>

(***************************************************************************)
(* handleSearch                                                            *)
(***************************************************************************)
\* lines 76-90: the blank check, the resets, and the addSearch call
handleSearch(word) ==
    IF trim(word) = <<>>
      THEN /\ dropped' = "handleSearch"
           /\ UNCHANGED <<appVars, searches, pageChanges, exportVars, formatVars>>
      ELSE /\ Len(searches) < MaxSearches
           /\ isLoading' = TRUE
           /\ isImagesLoading' = TRUE
           /\ currentWord' = word
           /\ explanation' = Null
           /\ paginatedImages' = Undefined
           /\ selectedPhrases' = <<>>
           /\ selectedImages' = <<>>
           /\ ankiMode' = FALSE
           /\ searches' = Append(searches,
                  [word |-> word, pc |-> "addSearch", status |-> NoStatus])
           /\ UNCHANGED <<searchResult, showAnkiCardCreator, settings,
                          pageChanges, dropped, exportVars, formatVars>>

\* A call that has run to its end keeps its outcome only.
finishedSearch(pc) == [word |-> <<>>, pc |-> pc, status |-> NoStatus]
finishedPageChange(pc) == [word |-> <<>>, page |-> 0, pc |-> pc]

\* line 90 resolves; lines 93-97 issue the three lookups
addSearchFulfilled(t) ==
    /\ searches[t].pc = "addSearch"
    /\ searches' = [searches EXCEPT
                      ![t].pc = "lookups",
                      ![t].status = [s \in Sources |-> "pending"]]
    /\ UNCHANGED <<appVars, pageChanges, dropped, exportVars, formatVars>>

\* Mutant of addSearchRejected: the flags are released in the try block only.
addSearchRejected_noFinally(t) ==
    /\ searches[t].pc = "addSearch"
    /\ searches' = [searches EXCEPT ![t] = finishedSearch("failed")]
    /\ UNCHANGED <<appVars, pageChanges, dropped, exportVars, formatVars>>

\* line 90 rejects: catch (136-137) and finally (138-141)
addSearchRejected(t) ==
    /\ searches[t].pc = "addSearch"
    /\ searches' = [searches EXCEPT ![t] = finishedSearch("failed")]
    /\ isLoading' = FALSE
    /\ isImagesLoading' = FALSE
    /\ UNCHANGED <<currentWord, searchResult, paginatedImages, explanation,
                   showAnkiCardCreator, selectedPhrases, selectedImages,
                   ankiMode, settings>>
    /\ UNCHANGED <<pageChanges, dropped, exportVars, formatVars>>

\* Mutant of allSettled: the await resumes at the first lookup that settles.
allSettled_firstSettled(status) == \E s \in Sources : status[s] # "pending"

\* Promise.allSettled: resolves when no input promise is pending
allSettled(status) == \A s \in Sources : status[s] # "pending"

\* lines 100-109
imageResults(task) ==
    IF task.status["images"] = "fulfilled"
      THEN searchImages(task.word, [page |-> 1, perPage |-> perPage])
      ELSE emptyImageResults

\* line 112
phraseResults(task) ==
    IF task.status["phrases"] = "fulfilled"
      THEN generatePhrases(task.word)
      ELSE <<>>

\* lines 115-116
explanationResult(task) ==
    IF task.status["explanation"] = "fulfilled"
      THEN generateExplanation(task.word)
      ELSE Null

\* lines 129-135 and finally (138-141)
publish(task) ==
    /\ paginatedImages' = imageResults(task)
    /\ searchResult' = [ word    |-> task.word,
                         images  |-> imageResults(task).images,
                         phrases |-> phraseResults(task) ]
    /\ explanation' = explanationResult(task)
    /\ isLoading' = FALSE
    /\ isImagesLoading' = FALSE
    /\ UNCHANGED <<currentWord, showAnkiCardCreator, selectedPhrases,
                   selectedImages, ankiMode, settings>>

\* One of the three lookups settles; the continuation of the await (line 93)
\* runs, in the same turn, once allSettled resolves. The finished call keeps
\* its word and how each lookup settled.
lookupSettled(t, source, outcome) ==
    /\ searches[t].pc = "lookups"
    /\ searches[t].status[source] = "pending"
    /\ LET status == [searches[t].status EXCEPT ![source] = outcome]
           task == [searches[t] EXCEPT !.status = status]
       IN IF allSettled(status)
            THEN /\ searches' = [searches EXCEPT ![t] = [task EXCEPT !.pc = "done"]]
                 /\ publish(task)
            ELSE /\ searches' = [searches EXCEPT ![t] = task]
                 /\ UNCHANGED appVars
    /\ UNCHANGED <<pageChanges, dropped, exportVars, formatVars>>

\* The three lookups settle, one after the other, and the await of line 93
\* resumes: the three lookupSettled steps of one search taken together. No
\* other handler reads the state of the three promises, so the steps in
\* between are invisible to the rest of the component.
lookupsSettled(t, outcomes) ==
    /\ searches[t].pc = "lookups"
    /\ \A s \in Sources : searches[t].status[s] = "pending"
    /\ LET task == [searches[t] EXCEPT !.status = outcomes]
       IN IF allSettled(outcomes)
            THEN /\ searches' = [searches EXCEPT ![t] = finishedSearch("done")]
                 /\ publish(task)
            ELSE /\ searches' = [searches EXCEPT ![t] = task]
                 /\ UNCHANGED appVars
    /\ UNCHANGED <<pageChanges, dropped, exportVars, formatVars>>

(***************************************************************************)
(* handlePageChange                                                        *)
(***************************************************************************)
\* lines 144-153; VisualContext (and its pager) is rendered with the grid
handlePageChange(page) ==
    /\ gridShown
    /\ IF currentWord = <<>> \/ isImagesLoading
         THEN /\ dropped' = "handlePageChange"
              /\ UNCHANGED <<appVars, searches, pageChanges, exportVars, formatVars>>
         ELSE /\ Len(pageChanges) < MaxPageChanges
              /\ isImagesLoading' = TRUE
              /\ pageChanges' = Append(pageChanges,
                     [word |-> currentWord, page |-> page, pc |-> "searchImages"])
              /\ UNCHANGED <<currentWord, searchResult, paginatedImages,
                             explanation, isLoading, showAnkiCardCreator,
                             selectedPhrases, selectedImages, ankiMode, settings>>
              /\ UNCHANGED <<searches, dropped, exportVars, formatVars>>

\* Mutant of pageChangeFulfilled: the merged result keeps its images.
pageChangeFulfilled_keepsMergedImages(t) ==
    /\ pageChanges[t].pc = "searchImages"
    /\ paginatedImages' = searchImages(pageChanges[t].word,
                              [page |-> pageChanges[t].page, perPage |-> perPage])
    /\ isImagesLoading' = FALSE
    /\ pageChanges' = [pageChanges EXCEPT ![t] = finishedPageChange("done")]
    /\ UNCHANGED <<currentWord, searchResult, explanation, isLoading,
                   showAnkiCardCreator, selectedPhrases, selectedImages,
                   ankiMode, settings>>
    /\ UNCHANGED <<searches, dropped, exportVars, formatVars>>

\* Mutant of pageChangeFulfilled: the merged result is rebuilt from the
\* response, without the phrases.
pageChangeFulfilled_dropsPhrases(t) ==
    /\ pageChanges[t].pc = "searchImages"
    /\ LET imageResult == searchImages(pageChanges[t].word,
                              [page |-> pageChanges[t].page, perPage |-> perPage])
       IN /\ paginatedImages' = imageResult
          /\ searchResult' = IF searchResult # Undefined
                               THEN [ word    |-> searchResult.word,
                                      images  |-> imageResult.images,
                                      phrases |-> <<>> ]
                               ELSE Undefined
    /\ isImagesLoading' = FALSE
    /\ pageChanges' = [pageChanges EXCEPT ![t] = finishedPageChange("done")]
    /\ UNCHANGED <<currentWord, explanation, isLoading, showAnkiCardCreator,
                   selectedPhrases, selectedImages, ankiMode, settings>>
    /\ UNCHANGED <<searches, dropped, exportVars, formatVars>>

\* lines 155-163 and finally (166-168)
pageChangeFulfilled(t) ==
    /\ pageChanges[t].pc = "searchImages"
    /\ LET imageResult == searchImages(pageChanges[t].word,
                              [page |-> pageChanges[t].page, perPage |-> perPage])
       IN /\ paginatedImages' = imageResult
          /\ searchResult' = IF searchResult # Undefined
                               THEN [searchResult EXCEPT !.images = imageResult.images]
                               ELSE Undefined
    /\ isImagesLoading' = FALSE
    /\ pageChanges' = [pageChanges EXCEPT ![t] = finishedPageChange("done")]
    /\ UNCHANGED <<currentWord, explanation, isLoading, showAnkiCardCreator,
                   selectedPhrases, selectedImages, ankiMode, settings>>
    /\ UNCHANGED <<searches, dropped, exportVars, formatVars>>

\* Mutant of pageChangeRejected: the catch block resets the pagination.
pageChangeRejected_resetsPagination(t) ==
    /\ pageChanges[t].pc = "searchImages"
    /\ isImagesLoading' = FALSE
    /\ paginatedImages' = Undefined
    /\ pageChanges' = [pageChanges EXCEPT ![t] = finishedPageChange("failed")]
    /\ UNCHANGED <<currentWord, searchResult, explanation,
                   isLoading, showAnkiCardCreator, selectedPhrases,
                   selectedImages, ankiMode, settings>>
    /\ UNCHANGED <<searches, dropped, exportVars, formatVars>>

\* catch (164-165) and finally (166-168)
pageChangeRejected(t) ==
    /\ pageChanges[t].pc = "searchImages"
    /\ isImagesLoading' = FALSE
    /\ pageChanges' = [pageChanges EXCEPT ![t] = finishedPageChange("failed")]
    /\ UNCHANGED <<currentWord, searchResult, paginatedImages, explanation,
                   isLoading, showAnkiCardCreator, selectedPhrases,
                   selectedImages, ankiMode, settings>>
    /\ UNCHANGED <<searches, dropped, exportVars, formatVars>>

AppNext ==
    \/ loadSettings
    \/ handleAnkiModeToggle
    \/ handleCreateAnkiCards
    \/ handleAnkiCardsCreated
    \/ closeAnkiCardCreator
    \/ onPhraseSelection
    \/ onImageSelection
    \/ \E word \in Queries : handleSearch(word)
    \/ \E t \in DOMAIN searches : addSearchFulfilled(t)
    \/ \E t \in DOMAIN searches : addSearchRejected(t)
    \/ \E t \in DOMAIN searches, outcomes \in [Sources -> {"fulfilled", "rejected"}] :
          lookupsSettled(t, outcomes)
    \/ \E page \in 1..TotalPages : handlePageChange(page)
    \/ \E t \in DOMAIN pageChanges : pageChangeFulfilled(t)
    \/ \E t \in DOMAIN pageChanges : pageChangeRejected(t)


(***************************************************************************)
(* AnkiService: addCards / addCard against the AnkiConnect bridge          *)
(*                                                                         *)
(* cards[s]       the argument of the addCards call of session s           *)
(* exportPc[s]    "idle", "running" (inside the for loop), "returned"      *)
(* idx[s]         how many cards the for loop has passed to addCard        *)
(* cardPc[s][i]   where the addCard call of card i stands: "notStarted",   *)
(*                the action whose response it awaits, or its return value *)
(*                "true" / "false"                                         *)
(* remoteDecks    the decks of the Anki collection                         *)
(* log            every request sent to the bridge, in order               *)
(* ensureFailedAt[s]  Len(log) when a createDeck of s first failed, else 0 *)
(* notesAdded[s]  addNote responses of s that carried no error             *)
(* decksAtStart[s]    the decks of the collection when s called addCards   *)
(* deckNamesFailed[s] a deckNames request of s got an error or threw       *)
(***************************************************************************)
Sessions == {1, 2}

\* the default value of the deckName parameter
deckName == "Exemplar::Vocabulary"

\* an AnkiCard: which phrase it carries and whether it has an audioUrl
Card == [phrase : 1..MaxCards, audioUrl : BOOLEAN]

\* the arguments of addCards: the selected phrases, in selection order
CardLists ==
    UNION { { cs \in [1..n -> Card] : \A i \in 1..n : cs[i].phrase = i } : n \in 0..MaxCards }

\* what sendRequest can do: resolve with error === null, resolve with an
\* error string, or throw (fetch rejects, or !response.ok)
Outcomes == {"ok", "error", "throw"}

Pending == {"deckNames", "createDeck", "addNote", "storeMediaFile"}

ExportInit ==
    /\ cards = [s \in Sessions |-> <<>>]
    /\ exportPc = [s \in Sessions |-> "idle"]
    /\ idx = [s \in Sessions |-> 0]
    /\ cardPc = [s \in Sessions |-> <<>>]
    /\ success = [s \in Sessions |-> 0]
    /\ failed = [s \in Sessions |-> 0]
    /\ remoteDecks \in { {"Default"}, {"Default", deckName} }
    /\ log = <<>>
    /\ ensureFailedAt = [s \in Sessions |-> 0]
    /\ notesAdded = [s \in Sessions |-> 0]
    /\ decksAtStart = [s \in Sessions |-> {}]
    /\ deckNamesFailed = [s \in Sessions |-> FALSE]
    /\ noteIds = [s \in Sessions |-> {}]
    /\ audioFailed = [s \in Sessions |-> {}]

\* sendRequest: the fetch is issued
sendRequest(s, i, action) == Append(log, [session |-> s, card |-> i, action |-> action])

\* lines 116-121: the call, up to the loop
\* Mutant of addCards: the deck is created before the loop starts.
addCards_createsDeckFirst(s, cs) ==
    /\ exportPc[s] = "idle"
    /\ cards' = [cards EXCEPT ![s] = cs]
    /\ cardPc' = [cardPc EXCEPT ![s] = [i \in 1..Len(cs) |-> "notStarted"]]
    /\ exportPc' = [exportPc EXCEPT ![s] = "running"]
    /\ decksAtStart' = [decksAtStart EXCEPT ![s] = remoteDecks]
    /\ log' = sendRequest(s, 0, "createDeck")
    /\ UNCHANGED <<idx, success, failed, remoteDecks, ensureFailedAt,
                   notesAdded, deckNamesFailed>>
    /\ UNCHANGED <<noteIds, audioFailed, appVars, taskVars, formatVars>>

addCards(s, cs) ==
    /\ exportPc[s] = "idle"
    /\ cards' = [cards EXCEPT ![s] = cs]
    /\ cardPc' = [cardPc EXCEPT ![s] = [i \in 1..Len(cs) |-> "notStarted"]]
    /\ exportPc' = [exportPc EXCEPT ![s] = "running"]
    /\ decksAtStart' = [decksAtStart EXCEPT ![s] = remoteDecks]
    /\ UNCHANGED <<idx, success, failed, remoteDecks, log, ensureFailedAt,
                   notesAdded, deckNamesFailed>>
    /\ UNCHANGED <<noteIds, audioFailed, appVars, taskVars, formatVars>>

\* Mutant of awaitResolved: addCard is called without `await`.
awaitResolved_notAwaited(s) == TRUE

\* line 124: `await this.addCard(...)` has resolved (or nothing is awaited yet)
awaitResolved(s) == \A i \in 1..idx[s] : cardPc[s][i] \notin Pending

\* Mutant of addCardsLoop: the loop returns at the first failed card.
addCardsLoop_stopsAtFailure(s) ==
    /\ exportPc[s] = "running"
    /\ awaitResolved(s)
    /\ IF idx[s] >= 1
         THEN IF cardPc[s][idx[s]] # "false"
                THEN /\ success' = [success EXCEPT ![s] = @ + 1]
                     /\ UNCHANGED failed
                ELSE /\ failed' = [failed EXCEPT ![s] = @ + 1]
                     /\ UNCHANGED success
         ELSE UNCHANGED <<success, failed>>
    /\ IF idx[s] < Len(cards[s]) /\ (idx[s] = 0 \/ cardPc[s][idx[s]] # "false")
         THEN /\ idx' = [idx EXCEPT ![s] = @ + 1]
              /\ cardPc' = [cardPc EXCEPT ![s][idx[s] + 1] = "deckNames"]
              /\ log' = sendRequest(s, idx[s] + 1, "deckNames")
              /\ UNCHANGED exportPc
         ELSE /\ exportPc' = [exportPc EXCEPT ![s] = "returned"]
              /\ UNCHANGED <<idx, cardPc, log>>
    /\ UNCHANGED <<cards, remoteDecks, ensureFailedAt, notesAdded, decksAtStart,
                   deckNamesFailed>>
    /\ UNCHANGED <<noteIds, audioFailed, appVars, taskVars, formatVars>>

\* lines 123-132: one turn of the for loop. It tallies the card it awaited,
\* then passes the next card to addCard (whose first await is the deckNames
\* request of getDeckNames), or returns the tally.
addCardsLoop(s) ==
    /\ exportPc[s] = "running"
    /\ awaitResolved(s)
    /\ IF idx[s] >= 1
         THEN IF cardPc[s][idx[s]] # "false"
                THEN /\ success' = [success EXCEPT ![s] = @ + 1]
                     /\ UNCHANGED failed
                ELSE /\ failed' = [failed EXCEPT ![s] = @ + 1]
                     /\ UNCHANGED success
         ELSE UNCHANGED <<success, failed>>
    /\ IF idx[s] < Len(cards[s])
         THEN /\ idx' = [idx EXCEPT ![s] = @ + 1]
              /\ cardPc' = [cardPc EXCEPT ![s][idx[s] + 1] = "deckNames"]
              /\ log' = sendRequest(s, idx[s] + 1, "deckNames")
              /\ UNCHANGED exportPc
         ELSE /\ exportPc' = [exportPc EXCEPT ![s] = "returned"]
              /\ UNCHANGED <<idx, cardPc, log>>
    /\ UNCHANGED <<cards, remoteDecks, ensureFailedAt, notesAdded, decksAtStart,
                   deckNamesFailed>>
    /\ UNCHANGED <<noteIds, audioFailed, appVars, taskVars, formatVars>>

\* Mutant of getDeckNames: the result is dropped.
getDeckNames_alwaysEmpty(outcome) == {}

\* getDeckNames (39-50): the result, or [] on an error or a throw
getDeckNames(outcome) == IF outcome = "ok" THEN remoteDecks ELSE {}

\* lines 74-76 and 82-98: the deckNames response arrives; createDeck or
\* addNote is sent
deckNamesResponse(s, i, outcome) ==
    /\ cardPc[s][i] = "deckNames"
    /\ IF deckName \notin getDeckNames(outcome)
         THEN /\ cardPc' = [cardPc EXCEPT ![s][i] = "createDeck"]
              /\ log' = sendRequest(s, i, "createDeck")
         ELSE /\ cardPc' = [cardPc EXCEPT ![s][i] = "addNote"]
              /\ log' = sendRequest(s, i, "addNote")
    /\ deckNamesFailed' = [deckNamesFailed EXCEPT ![s] = @ \/ outcome # "ok"]
    /\ UNCHANGED <<cards, exportPc, idx, success, failed, remoteDecks,
                   ensureFailedAt, notesAdded, decksAtStart>>
    /\ UNCHANGED <<noteIds, audioFailed, appVars, taskVars, formatVars>>

\* Mutant of createDeck: only a throw counts as a failure.
createDeck_ignoresError(outcome) == outcome # "throw"

\* createDeck (52-66): true iff the response carries no error
createDeck(outcome) == outcome = "ok"

\* Mutant of createDeckResponse: the bridge refuses to create a deck that
\* exists.
createDeckResponse_notIdempotent(s, i, outcome) ==
    /\ cardPc[s][i] = "createDeck"
    /\ deckName \in remoteDecks => outcome # "ok"
    /\ remoteDecks' = IF outcome = "ok" THEN remoteDecks \cup {deckName} ELSE remoteDecks
    /\ IF createDeck(outcome)
         THEN /\ cardPc' = [cardPc EXCEPT ![s][i] = "addNote"]
              /\ log' = sendRequest(s, i, "addNote")
              /\ UNCHANGED ensureFailedAt
         ELSE /\ cardPc' = [cardPc EXCEPT ![s][i] = "false"]
              /\ ensureFailedAt' = [ensureFailedAt EXCEPT ![s] = IF @ = 0 THEN Len(log) ELSE @]
              /\ UNCHANGED log
    /\ UNCHANGED <<cards, exportPc, idx, success, failed, notesAdded,
                   decksAtStart, deckNamesFailed>>
    /\ UNCHANGED <<noteIds, audioFailed, appVars, taskVars, formatVars>>

\* lines 76-98, 110-113: the createDeck response arrives; addNote is sent, or
\* the throw of line 78 is caught and addCard returns false
createDeckResponse(s, i, outcome) ==
    /\ cardPc[s][i] = "createDeck"
    /\ remoteDecks' = IF outcome = "ok" THEN remoteDecks \cup {deckName} ELSE remoteDecks
    /\ IF createDeck(outcome)
         THEN /\ cardPc' = [cardPc EXCEPT ![s][i] = "addNote"]
              /\ log' = sendRequest(s, i, "addNote")
              /\ UNCHANGED ensureFailedAt
         ELSE /\ cardPc' = [cardPc EXCEPT ![s][i] = "false"]
              /\ ensureFailedAt' = [ensureFailedAt EXCEPT ![s] = IF @ = 0 THEN Len(log) ELSE @]
              /\ UNCHANGED log
    /\ UNCHANGED <<cards, exportPc, idx, success, failed, notesAdded,
                   decksAtStart, deckNamesFailed>>
    /\ UNCHANGED <<noteIds, audioFailed, appVars, taskVars, formatVars>>

\* lines 100-113: the addNote response arrives. hasResult: response.result is
\* a note id (truthy).
addNoteResponse(s, i, outcome, hasResult) ==
    /\ cardPc[s][i] = "addNote"
    /\ IF outcome # "ok"
         THEN /\ cardPc' = [cardPc EXCEPT ![s][i] = "false"]
              /\ UNCHANGED <<log, notesAdded, noteIds>>
         ELSE /\ notesAdded' = [notesAdded EXCEPT ![s] = @ + 1]
              /\ noteIds' = [noteIds EXCEPT ![s] = IF hasResult THEN @ \cup {i} ELSE @]
              /\ IF cards[s][i].audioUrl /\ hasResult
                   THEN /\ cardPc' = [cardPc EXCEPT ![s][i] = "storeMediaFile"]
                        /\ log' = sendRequest(s, i, "storeMediaFile")
                   ELSE /\ cardPc' = [cardPc EXCEPT ![s][i] = "true"]
                        /\ UNCHANGED log
    /\ UNCHANGED <<cards, exportPc, idx, success, failed, remoteDecks,
                   ensureFailedAt, decksAtStart, deckNamesFailed>>
    /\ UNCHANGED <<audioFailed, appVars, taskVars, formatVars>>

\* Mutant of storeMediaFileResponse: a failed media call fails the card.
storeMediaFileResponse_failsCard(s, i, outcome) ==
    /\ cardPc[s][i] = "storeMediaFile"
    /\ cardPc' = [cardPc EXCEPT ![s][i] = IF outcome = "ok" THEN "true" ELSE "false"]
    /\ audioFailed' = [audioFailed EXCEPT ![s] = IF outcome # "ok" THEN @ \cup {i} ELSE @]
    /\ UNCHANGED <<cards, exportPc, idx, success, failed, remoteDecks, log,
                   ensureFailedAt, notesAdded, decksAtStart, deckNamesFailed>>
    /\ UNCHANGED <<noteIds, appVars, taskVars, formatVars>>

\* addAudioToCard (179-198) returns, whatever the response; line 109
storeMediaFileResponse(s, i, outcome) ==
    /\ cardPc[s][i] = "storeMediaFile"
    /\ cardPc' = [cardPc EXCEPT ![s][i] = "true"]
    /\ audioFailed' = [audioFailed EXCEPT ![s] = IF outcome # "ok" THEN @ \cup {i} ELSE @]
    /\ UNCHANGED <<cards, exportPc, idx, success, failed, remoteDecks, log,
                   ensureFailedAt, notesAdded, decksAtStart, deckNamesFailed>>
    /\ UNCHANGED <<noteIds, appVars, taskVars, formatVars>>

ExportStep(s) ==
    \/ \E cs \in CardLists : addCards(s, cs)
    \/ addCardsLoop(s)
    \/ \E i \in DOMAIN cardPc[s], outcome \in Outcomes : deckNamesResponse(s, i, outcome)
    \/ \E i \in DOMAIN cardPc[s], outcome \in Outcomes : createDeckResponse(s, i, outcome)
    \/ \E i \in DOMAIN cardPc[s], outcome \in Outcomes, hasResult \in BOOLEAN :
          addNoteResponse(s, i, outcome, hasResult)
    \/ \E i \in DOMAIN cardPc[s], outcome \in Outcomes : storeMediaFileResponse(s, i, outcome)

\* one export session
ExportNext == ExportStep(1)

(***************************************************************************)
(* AnkiService.formatCard. A string is a sequence: every character of an   *)
(* interpolated value is one element, every literal piece of markup of the *)
(* template is one element (white space between the pieces is left out).   *)
(***************************************************************************)
Words == { <<"c", "a">>, <<"s">> }
Categories == { <<"n">>, <<"c", "a">>, <<"a", "n">> }
Explanations == { <<>>, <<"h">> }
Texts == { <<"m">>, <<"m", "c", "a">> }

\* AnkiCard (anki.ts 3-9); image is optional, and so is audioUrl: <<>> is an
\* absent or empty audioUrl (both are falsy)
AnkiCards ==
    [ word        : Words,
      explanation : Explanations,
      phrase      : [ text : Texts, translation : { <<"y">> }, category : Categories ],
      image       : { Undefined, [thumbnail |-> <<"u">>] },
      audioUrl    : { <<>>, <<"d">> } ]

\* String.prototype.includes
Contains(haystack, needle) ==
    \E i \in 0..(Len(haystack) - Len(needle)) :
        SubSeq(haystack, i + 1, i + Len(needle)) = needle

\* Mutant of formatCard: the front shows the image only.
formatCard_frontWithoutHeading(c) ==
    LET imageHtml ==
            IF c.image # Undefined
              THEN <<"<img src=\"">> \o c.image.thumbnail \o <<"\" alt=\"">> \o c.word
                     \o <<"\" style=\"max-width: 300px; height: auto; border-radius: 8px; margin-bottom: 16px;\">">>
              ELSE <<>>
        front == <<"<div style=\"text-align: center; font-family: system-ui, -apple-system, sans-serif;\">">>
                   \o imageHtml \o <<"</div>">>
    IN  [ front |-> front, back |-> front \o c.word \o c.phrase.category ]

\* formatCard (135-177)
formatCard(c) ==
    LET imageHtml ==
            IF c.image # Undefined
              THEN <<"<img src=\"">> \o c.image.thumbnail \o <<"\" alt=\"">> \o c.word
                     \o <<"\" style=\"max-width: 300px; height: auto; border-radius: 8px; margin-bottom: 16px;\">">>
              ELSE <<>>
        audioHtml ==
            IF c.audioUrl # <<>>
              THEN <<"<audio controls style=\"width: 100%; margin-top: 16px;\"><source src=\"">>
                     \o c.audioUrl
                     \o <<"\" type=\"audio/mpeg\">Your browser does not support the audio element.</audio>">>
              ELSE <<>>
        front ==
            <<"<div style=\"text-align: center; font-family: system-ui, -apple-system, sans-serif;\">">>
              \o imageHtml
              \o <<"<h2 style=\"color: #2563eb; margin: 16px 0; font-size: 2rem; font-weight: bold;\">">>
              \o c.word \o <<"</h2>", "</div>">>
        explanationHtml ==
            IF c.explanation # <<>>
              THEN <<"<div style=\"background: #f8fafc; border-left: 4px solid #3b82f6; padding: 16px; margin: 16px 0; border-radius: 4px;\">",
                     "<h3 style=\"margin: 0 0 8px 0; color: #1e40af;\">Explanation</h3>",
                     "<p style=\"margin: 0; color: #374151;\">">>
                     \o c.explanation \o <<"</p>", "</div>">>
              ELSE <<>>
        back ==
            <<"<div style=\"font-family: system-ui, -apple-system, sans-serif; line-height: 1.6;\">">>
              \o imageHtml
              \o <<"<h2 style=\"color: #2563eb; margin: 16px 0 24px 0; font-size: 2rem; font-weight: bold;\">">>
              \o c.word \o <<"</h2>">>
              \o explanationHtml
              \o <<"<div style=\"background: #f0f9ff; border-left: 4px solid #0ea5e9; padding: 16px; margin: 16px 0; border-radius: 4px;\">",
                   "<h3 style=\"margin: 0 0 8px 0; color: #0369a1;\">Example Phrase</h3>",
                   "<p style=\"margin: 0 0 8px 0; font-weight: 500; color: #1e293b;\">">>
              \o c.phrase.text
              \o <<"</p>", "<p style=\"margin: 0; font-style: italic; color: #64748b;\">">>
              \o c.phrase.translation
              \o <<"</p>",
                   "<span style=\"display: inline-block; background: #dbeafe; color: #1e40af; padding: 4px 8px; border-radius: 12px; font-size: 0.75rem; margin-top: 8px;\">">>
              \o c.phrase.category \o <<"</span>", "</div>">>
              \o audioHtml \o <<"</div>">>
    IN  [ front |-> front, back |-> back ]

\* no formatCard call is modelled
FormatIdle == card = Undefined /\ fields = Undefined

\* a card is about to be formatted
FormatInit == AppInit /\ ExportInit /\ card \in AnkiCards /\ fields = Undefined

\* line 82: const { front, back } = this.formatCard(card)
formatCardCall ==
    /\ card # Undefined
    /\ fields = Undefined
    /\ fields' = formatCard(card)
    /\ UNCHANGED <<card, appVars, taskVars, exportVars>>

FormatNext == formatCardCall

(***************************************************************************)
(* Specifications                                                          *)
(***************************************************************************)
Init == AppInit /\ ExportInit /\ FormatIdle

Spec == Init /\ [][AppNext]_vars

\* The search aggregator on its own, with every lookup settling in a step of
\* its own.
AggregatorNext ==
    \/ \E word \in Queries : handleSearch(word)
    \/ \E t \in DOMAIN searches : addSearchFulfilled(t)
    \/ \E t \in DOMAIN searches : addSearchRejected(t)
    \/ \E t \in DOMAIN searches, source \in Sources,
          outcome \in {"fulfilled", "rejected"} : lookupSettled(t, source, outcome)

\* Searches and page changes alone, every issued call settling in the end:
\* the promise awaited by a handler is fulfilled or rejected.
searchCallSettles ==
    \E t \in DOMAIN searches :
        \/ addSearchFulfilled(t)
        \/ addSearchRejected(t)
        \/ \E outcomes \in [Sources -> {"fulfilled", "rejected"}] : lookupsSettled(t, outcomes)

pageChangeCallSettles ==
    \E t \in DOMAIN pageChanges : pageChangeFulfilled(t) \/ pageChangeRejected(t)

LoadingNext ==
    \/ \E word \in Queries : handleSearch(word)
    \/ \E page \in 1..TotalPages : handlePageChange(page)
    \/ searchCallSettles
    \/ pageChangeCallSettles

LoadingSpec ==
    /\ Init
    /\ [][LoadingNext]_vars
    /\ WF_vars(searchCallSettles)
    /\ WF_vars(pageChangeCallSettles)

AggregatorSpec == Init /\ [][AggregatorNext]_vars

ExportSpec == Init /\ [][ExportNext]_vars

\* Two export sessions at once against a bridge that lacks the deck. The
\* cards carry no audio and every note gets an id: the sessions meet in the
\* deckNames, createDeck and addNote calls.
RaceInit == Init /\ remoteDecks = {"Default"}

RaceStep(s) ==
    \/ \E cs \in CardLists : (\A i \in DOMAIN cs : ~cs[i].audioUrl) /\ addCards(s, cs)
    \/ addCardsLoop(s)
    \/ \E i \in DOMAIN cardPc[s], outcome \in Outcomes : deckNamesResponse(s, i, outcome)
    \/ \E i \in DOMAIN cardPc[s], outcome \in Outcomes : createDeckResponse(s, i, outcome)
    \/ \E i \in DOMAIN cardPc[s], outcome \in Outcomes : addNoteResponse(s, i, outcome, TRUE)

RaceNext == \E s \in Sessions : RaceStep(s)

RaceSpec == RaceInit /\ [][RaceNext]_vars

\* formatCard applied to every card of AnkiCards
FormatSpec == FormatInit /\ [][FormatNext]_vars


(***************************************************************************)
(* Export claims (ExportSpec)                                              *)
(***************************************************************************)
\* the places in the log of the requests `action` of session s
requestsOf(s, action) ==
    { k \in 1..Len(log) : log[k].session = s /\ log[k].action = action }

inFlight(s) == { i \in DOMAIN cardPc[s] : cardPc[s][i] \in Pending }

\* C1: if ensuring the deck fails (the deck is absent and createDeck fails),
\* the export sends no further request (no addNote, no further deckNames or
\* createDeck) and does not end by returning a tally.
C1_DeckFailureAbortsExport ==
    \A s \in Sessions :
        ensureFailedAt[s] > 0 =>
            /\ \A k \in (ensureFailedAt[s] + 1)..Len(log) : log[k].session # s
            /\ exportPc[s] # "returned"

\* C4: when an export has returned and no deck creation failed in it, every
\* card was submitted (addNote was sent for each), success + failed is the
\* number of cards, and success is the number of addNote responses that
\* carried no error.
C4_PartialFailureTally ==
    \A s \in Sessions :
        exportPc[s] = "returned" =>
            /\ success[s] + failed[s] = Len(cards[s])
            /\ success[s] = notesAdded[s]
            /\ ensureFailedAt[s] = 0 =>
                  /\ Cardinality(requestsOf(s, "addNote")) = Len(cards[s])
                  /\ \A i \in 1..Len(cards[s]) :
                        \E k \in requestsOf(s, "addNote") : log[k].card = i

\* C4 witness: an export of two cards has returned with one card failed at
\* addNote and the other one added, no deck creation having failed.
C4_Witness ==
    /\ exportPc[1] = "returned"
    /\ Len(cards[1]) = 2
    /\ ensureFailedAt[1] = 0
    /\ success[1] = 1
    /\ failed[1] = 1
    /\ cardPc[1][1] = "false"
    /\ cardPc[1][2] = "true"

\* what C5 says of a returned export of session s
createsOnceThenSubmitsInOrder(s) ==
    /\ Cardinality(requestsOf(s, "createDeck")) = 1
    /\ Cardinality(requestsOf(s, "addNote")) = Len(cards[s])
    /\ \A c \in requestsOf(s, "createDeck"), a \in requestsOf(s, "addNote") : c < a
    /\ \A a, b \in requestsOf(s, "addNote") : a < b => log[a].card < log[b].card

C9_OneRequestAtATime ==
    \A s \in Sessions :
        /\ Cardinality(inFlight(s)) <= 1
        /\ \A i \in DOMAIN cardPc[s] :
              (i > 1 /\ cardPc[s][i] # "notStarted") => cardPc[s][i - 1] \in {"true", "false"}
        /\ \A j, k \in 1..Len(log) :
              (j < k /\ log[j].session = s /\ log[k].session = s) => log[j].card <= log[k].card

\* C9 witness: the second card awaits a response after the first card went
\* through deckNames, createDeck, addNote and storeMediaFile.
C9_Witness ==
    /\ Len(cards[1]) = 2
    /\ cardPc[1][1] = "true"
    /\ cardPc[1][2] \in Pending
    /\ \A a \in Pending : \E k \in requestsOf(1, a) : log[k].card = 1


(***************************************************************************)
(* Search and pagination claims                                            *)
(***************************************************************************)
Settled == {"fulfilled", "rejected"}

\* the merged result C2 expects of a search for `word` whose lookups have
\* settled as `status`
expectedPage(word, status) ==
    IF status["images"] = "fulfilled"
      THEN searchImages(word, [page |-> 1, perPage |-> 6])
      ELSE [images |-> <<>>, currentPage |-> 1, totalPages |-> 1,
            hasNext |-> FALSE, hasPrevious |-> FALSE]

expectedPhrases(word, status) ==
    IF status["phrases"] = "fulfilled" THEN generatePhrases(word) ELSE <<>>

expectedExplanation(word, status) ==
    IF status["explanation"] = "fulfilled" THEN generateExplanation(word) ELSE Null

\* C2: a search publishes only in the step in which the last of its three
\* lookups settles, and what it publishes is, source by source, the value
\* of a fulfilled lookup and the fallback of a rejected one.
C2_SettleAllThenMerge ==
    [][ /\ \A t \in DOMAIN searches :
              (searches[t].pc = "lookups" /\ searches'[t].pc = "done") =>
                  LET word == searches[t].word
                      status == searches'[t].status
                  IN /\ \A s \in Sources : status[s] \in Settled
                     /\ \A s \in Sources :
                           searches[t].status[s] \in Settled => status[s] = searches[t].status[s]
                     /\ paginatedImages' = expectedPage(word, status)
                     /\ searchResult' = [ word    |-> word,
                                          images  |-> expectedPage(word, status).images,
                                          phrases |-> expectedPhrases(word, status) ]
                     /\ explanation' = expectedExplanation(word, status)
        /\ searchResult' # searchResult =>
              \E t \in DOMAIN searches :
                  /\ searches[t].pc = "lookups"
                  /\ searches'[t].pc = "done"
                  /\ Cardinality({s \in Sources : searches[t].status[s] = "pending"}) = 1
      ]_vars

\* C2 witness: a search has published with its image and explanation
\* lookups rejected and its phrase lookup fulfilled.
C2_Witness ==
    \E t \in DOMAIN searches :
        /\ searches[t].pc = "done"
        /\ searches[t].status["images"] = "rejected"
        /\ searches[t].status["phrases"] = "fulfilled"
        /\ searches[t].status["explanation"] = "rejected"
        /\ searchResult = [ word    |-> searches[t].word,
                            images  |-> <<>>,
                            phrases |-> generatePhrases(searches[t].word) ]
        /\ paginatedImages.images = <<>>
        /\ paginatedImages.totalPages = 1
        /\ explanation = Null

\* C3: no search ends without having issued its lookups and published its
\* result because its history call (addSearch) failed.
C3_HistoryFailureDoesNotAffectSearch ==
    \A t \in DOMAIN searches : searches[t].pc # "failed"

\* C6: a page-change request made while an earlier one is unresolved is
\* dropped, so at most one page-change image lookup is ever in flight.
C6_PageChangeWhileUnresolvedIsDropped ==
    Cardinality({ t \in DOMAIN pageChanges : pageChanges[t].pc = "searchImages" }) <= 1

\* C7: the response of a page change requested for a word that a later
\* search has replaced as the current word is not applied: it changes neither
\* the paginated image result nor the merged result.
C7_StalePageResponseNotApplied ==
    [][ \A t \in DOMAIN pageChanges :
            ( /\ pageChanges[t].pc = "searchImages"
              /\ pageChanges'[t].pc = "done"
              /\ pageChanges[t].word # currentWord )
            => UNCHANGED <<paginatedImages, searchResult>>
      ]_vars

\* C8: in the step in which a search completes (publishes its result), both
\* selection sets are empty.
C8_SelectionsEmptyWhenSearchCompletes ==
    [][ \A t \in DOMAIN searches :
            (searches[t].pc = "lookups" /\ searches'[t].pc = "done")
            => (selectedPhrases' = <<>> /\ selectedImages' = <<>>)
      ]_vars

\* C10: the step in which a page change's image lookup fails changes nothing
\* of the session state but the in-flight flag, which it releases, and it
\* starts no other request.
C10_FailedPageChangeLeavesState ==
    [][ \A t \in DOMAIN pageChanges :
            (pageChanges[t].pc = "searchImages" /\ pageChanges'[t].pc = "failed") =>
                /\ UNCHANGED <<currentWord, paginatedImages, searchResult, explanation,
                               selectedPhrases, selectedImages, ankiMode, isLoading>>
                /\ isImagesLoading' = FALSE
                /\ searches' = searches
                /\ Len(pageChanges') = Len(pageChanges)
                /\ \A u \in DOMAIN pageChanges : u # t => pageChanges'[u] = pageChanges[u]
      ]_vars

\* C10 witness: a page change has failed while a page of images, a merged
\* result and a selection were present.
C10_Witness ==
    /\ \E t \in DOMAIN pageChanges : pageChanges[t].pc = "failed"
    /\ paginatedImages # Undefined
    /\ searchResult # Undefined
    /\ selectedImages # <<>>
    /\ ~isImagesLoading


\* C11: a page change that passes the guard issues one image lookup, for the
\* current word, and nothing else; when the lookup is fulfilled the response
\* (the requested page, 6 per page) replaces the paginated image result and
\* its images replace the images of the merged result, whose word and
\* phrases, the explanation and both selection sets stay as they were.
C11_PageChangeReplacesImagesOnly ==
    [][ /\ Len(pageChanges') = Len(pageChanges) + 1 =>
              /\ pageChanges'[Len(pageChanges')] =
                    [word |-> currentWord, page |-> pageChanges'[Len(pageChanges')].page,
                     pc |-> "searchImages"]
              /\ searches' = searches
              /\ \A u \in DOMAIN pageChanges : pageChanges'[u] = pageChanges[u]
        /\ \A t \in DOMAIN pageChanges :
              (pageChanges[t].pc = "searchImages" /\ pageChanges'[t].pc = "done") =>
                  LET response == [ images |-> << [word |-> pageChanges[t].word,
                                                   page |-> pageChanges[t].page,
                                                   perPage |-> 6] >>,
                                    currentPage |-> pageChanges[t].page,
                                    totalPages  |-> TotalPages,
                                    hasNext     |-> pageChanges[t].page < TotalPages,
                                    hasPrevious |-> pageChanges[t].page > 1 ]
                  IN /\ paginatedImages' = response
                     /\ searchResult # Undefined =>
                           searchResult' = [ word    |-> searchResult.word,
                                             images  |-> response.images,
                                             phrases |-> searchResult.phrases ]
                     /\ searchResult = Undefined => searchResult' = Undefined
                     /\ UNCHANGED <<currentWord, explanation, selectedPhrases, selectedImages>>
                     /\ searches' = searches
      ]_vars

\* C11 witness: a page change to page 2 has been applied while phrases, an
\* explanation and a phrase selection were present.
C11_Witness ==
    /\ \E t \in DOMAIN pageChanges : pageChanges[t].pc = "done"
    /\ paginatedImages # Undefined
    /\ paginatedImages.currentPage = 2
    /\ searchResult # Undefined
    /\ searchResult.images = paginatedImages.images
    /\ searchResult.phrases # <<>>
    /\ explanation # Null
    /\ selectedPhrases # <<>>

\* C12: whenever Anki (curation) mode is inactive both selection sets are
\* empty.
C12_NoSelectionOutsideAnkiMode ==
    ~ankiMode => (selectedPhrases = <<>> /\ selectedImages = <<>>)

\* C12 witness: the mode is inactive and nothing is selected although the
\* card creator was opened, which takes a selected phrase.
C12_Witness ==
    /\ ~ankiMode
    /\ showAnkiCardCreator
    /\ selectedPhrases = <<>>
    /\ selectedImages = <<>>

\* C13: a step that turns Anki mode on changes neither selection set, and a
\* step that turns it off leaves both selection sets empty.
C13_ToggleOnKeepsToggleOffClears ==
    [][ /\ (~ankiMode /\ ankiMode') => UNCHANGED <<selectedPhrases, selectedImages>>
        /\ (ankiMode /\ ~ankiMode') => (selectedPhrases' = <<>> /\ selectedImages' = <<>>)
      ]_vars

\* C13 witness: Anki mode has been turned on and a phrase and an image are
\* selected, for the toggle to clear.
C13_Witness ==
    /\ ankiMode
    /\ selectedPhrases # <<>>
    /\ selectedImages # <<>>

\* white space only, or empty
isBlank(word) == \A i \in 1..Len(word) : word[i] = " "

\* C17: a search with an empty or white-space-only query changes no session
\* state and issues no lookup and no history call: no handleSearch call in
\* progress carries a blank word, the current word is never blank unless
\* empty, and the step of a blank search changes nothing.
C17_BlankSearchIsNoOp ==
    /\ [](/\ \A t \in DOMAIN searches :
                searches[t].pc \in {"addSearch", "lookups"} => ~isBlank(searches[t].word)
          /\ isBlank(currentWord) => currentWord = <<>>)
    /\ [][ (dropped' = "handleSearch" /\ dropped # "handleSearch") =>
               UNCHANGED <<appVars, searches, pageChanges>> ]_vars

\* C17 witness: a blank search was made after a search had published its
\* result.
C17_Witness ==
    /\ dropped = "handleSearch"
    /\ searchResult # Undefined
    /\ currentWord # <<>>

\* C20: whenever no search is in flight and a merged result is present, the
\* merged result is the result of the current word.
C20_ResultBelongsToCurrentWord ==
    ( /\ \A t \in DOMAIN searches : searches[t].pc \in {"done", "failed"}
      /\ searchResult # Undefined )
    => searchResult.word = currentWord


\* C19 (as stated): for every card, the front and the back fragment both
\* contain the card's word and the phrase's category.
C19_Original ==
    fields # Undefined =>
        /\ Contains(fields.front, card.word)
        /\ Contains(fields.back, card.word)
        /\ Contains(fields.front, card.phrase.category)
        /\ Contains(fields.back, card.phrase.category)

\* C19 (amended): for every card, the front and the back fragment both
\* contain the card's word, and the back fragment contains the phrase's
\* category.
C19_WordOnBothSidesCategoryOnBack ==
    fields # Undefined =>
        /\ Contains(fields.front, card.word)
        /\ Contains(fields.back, card.word)
        /\ Contains(fields.back, card.phrase.category)

\* C19 witness: a card without image has been formatted whose category does
\* not occur in its word.
C19_Witness ==
    /\ fields # Undefined
    /\ card.image = Undefined
    /\ ~Contains(card.word, card.phrase.category)
    /\ Contains(fields.back, card.phrase.category)


\* C14: an export never throws: a session is idle, running or has returned,
\* a card's addCard call is not started, awaiting one of its four requests or
\* has returned true or false, a running session can always take a step, and
\* a returned session has tallied every card. For each of the four requests,
\* a step is the handling of an error response exactly when it is the
\* handling of a transport failure: both lead to the same state.
C14_ExportNeverThrows ==
    /\ [](\A s \in Sessions :
            /\ exportPc[s] \in {"idle", "running", "returned"}
            /\ \A i \in DOMAIN cardPc[s] :
                  cardPc[s][i] \in {"notStarted", "deckNames", "createDeck", "addNote",
                                    "storeMediaFile", "true", "false"}
            /\ exportPc[s] = "returned" =>
                  /\ success[s] + failed[s] = Len(cards[s])
                  /\ \A i \in DOMAIN cardPc[s] : cardPc[s][i] \in {"true", "false"})
    /\ [](exportPc[1] = "running" => ENABLED ExportNext)
    /\ [][ \A s \in Sessions : \A i \in DOMAIN cardPc[s] :
              /\ deckNamesResponse(s, i, "error") <=> deckNamesResponse(s, i, "throw")
              /\ createDeckResponse(s, i, "error") <=> createDeckResponse(s, i, "throw")
              /\ \A hasResult \in BOOLEAN :
                    addNoteResponse(s, i, "error", hasResult)
                       <=> addNoteResponse(s, i, "throw", hasResult)
              /\ storeMediaFileResponse(s, i, "error") <=> storeMediaFileResponse(s, i, "throw")
       ]_vars

\* C14 witness: an export of two cards has returned after a deckNames call,
\* a createDeck call and an addNote call failed.
C14_Witness ==
    /\ exportPc[1] = "returned"
    /\ Len(cards[1]) = 2
    /\ deckNamesFailed[1]
    /\ ensureFailedAt[1] # 0
    /\ cardPc[1][2] = "false"
    /\ \E k \in DOMAIN log : log[k] = [session |-> 1, card |-> 2, action |-> "addNote"]

\* C15: a storeMediaFile request is sent only for a card that carries audio,
\* after that card's addNote request, and once addNote has returned a note
\* id; a card whose storeMediaFile call failed is a success of addCard, is
\* tallied as a success, and the card after it is processed.
C15_AudioFailureIsSwallowed ==
    \A s \in Sessions : \A i \in DOMAIN cardPc[s] :
        /\ \A k \in DOMAIN log :
              log[k] = [session |-> s, card |-> i, action |-> "storeMediaFile"] =>
                  /\ cards[s][i].audioUrl
                  /\ i \in noteIds[s]
                  /\ \E j \in 1..(k - 1) :
                        log[j] = [session |-> s, card |-> i, action |-> "addNote"]
        /\ i \in audioFailed[s] =>
              /\ cardPc[s][i] = "true"
              /\ exportPc[s] = "returned" =>
                    /\ success[s] = Cardinality({c \in DOMAIN cardPc[s] : cardPc[s][c] = "true"})
                    /\ i < Len(cards[s]) =>
                          \E k \in DOMAIN log :
                             log[k] = [session |-> s, card |-> i + 1, action |-> "deckNames"]

\* C15 witness: the export of two cards has returned; the media call of the
\* first card failed, and both cards are tallied as successes.
C15_Witness ==
    /\ exportPc[1] = "returned"
    /\ Len(cards[1]) = 2
    /\ 1 \in audioFailed[1]
    /\ success[1] = 2

\* C16: an export of no cards returns the tally 0/0 and sends no addNote
\* request and no createDeck request.
C16_EmptyExport ==
    \A s \in Sessions :
        (exportPc[s] \in {"running", "returned"} /\ cards[s] = <<>>) =>
            /\ success[s] = 0
            /\ failed[s] = 0
            /\ \A k \in DOMAIN log :
                  log[k].session = s => log[k].action \notin {"addNote", "createDeck"}

\* C16 witness: an export of no cards has returned.
C16_Witness ==
    /\ exportPc[1] = "returned"
    /\ cards[1] = <<>>


imageLookupsInFlight ==
    Cardinality({t \in DOMAIN searches : searches[t].pc = "lookups"})
      + Cardinality({t \in DOMAIN pageChanges : pageChanges[t].pc = "searchImages"})

\* C21: isImagesLoading is true whenever an image lookup, of a search or of
\* a page change, is unresolved, and at most one image lookup is in flight.
C21_ImageFlagAccurate ==
    /\ imageLookupsInFlight >= 1 => isImagesLoading
    /\ imageLookupsInFlight <= 1

\* C22: whenever the card creator is open, at least one phrase is selected.
C22_CreatorOpenImpliesSelection ==
    showAnkiCardCreator => selectedPhrases # <<>>

\* C23: whenever the paginated image result and the merged result are both
\* present, they hold the same image list.
C23_SameImageList ==
    (paginatedImages # Undefined /\ searchResult # Undefined)
        => searchResult.images = paginatedImages.images

\* C23 witness: both results are present after a page change was applied,
\* another page change failed and a second search was made.
C23_Witness ==
    /\ paginatedImages # Undefined
    /\ searchResult # Undefined
    /\ Len(searches) = 2
    /\ \E t \in DOMAIN pageChanges : pageChanges[t].pc = "done"
    /\ \E t \in DOMAIN pageChanges : pageChanges[t].pc = "failed"


\* every call awaited by a search or a page change has settled
noRequestOutstanding ==
    /\ \A t \in DOMAIN searches : searches[t].pc \in {"done", "failed"}
    /\ \A t \in DOMAIN pageChanges : pageChanges[t].pc \in {"done", "failed"}

\* C24: every issued call settling in the end, the state with no request
\* outstanding is always reached again, a raised loading flag always leads to
\* both flags being down, and whenever no request is outstanding isLoading
\* and isImagesLoading are both false.
C24_LoadingEnds ==
    /\ [](noRequestOutstanding => (~isLoading /\ ~isImagesLoading))
    /\ (~noRequestOutstanding) ~> noRequestOutstanding
    /\ (isLoading \/ isImagesLoading) ~> (~isLoading /\ ~isImagesLoading)

\* C24 witness: nothing is outstanding and both flags are down after one
\* search published, another failed at the history call, and a page change
\* failed.
C24_Witness ==
    /\ noRequestOutstanding
    /\ ~isLoading
    /\ ~isImagesLoading
    /\ \E t \in DOMAIN searches : searches[t].pc = "done"
    /\ \E t \in DOMAIN searches : searches[t].pc = "failed"
    /\ \E t \in DOMAIN pageChanges : pageChanges[t].pc = "failed"


====
